---- MODULE Spec2Model ----
(***************************************************************************)
(* A state-machine model of SmolagentFalApp.stream_agent_response          *)
(* (src/src/agents/smolagent.py): the generator that appends the user      *)
(* message, starts agent.run on a background thread, polls the agent's     *)
(* step log while the thread is alive, joins it and renders the final      *)
(* chat entry.                                                             *)
(*                                                                         *)
(* One SmolagentFalApp owns one CodeAgent (self.agent), so every call of   *)
(* stream_agent_response shares the agent's step log (variable steps).     *)
(* The generator advances only when its consumer asks for the next value:  *)
(* each poller action below runs the code from one suspension point to     *)
(* the next, except where the code reads state the worker thread writes,   *)
(* where the action is cut so that the worker's steps can interleave.      *)
(* The spinner frame, the elapsed time and step_start_times only change    *)
(* the rendered text of a progress snapshot and are left out.              *)
(***************************************************************************)
EXTENDS Integers, Sequences, FiniteSets, TLC

\* Number of calls of stream_agent_response on the one application object.
MaxCalls == 2
\* Number of action steps one agent.run may record before it ends.
MaxSteps == 1
\* Number of words of a text handed to a media extractor.
MaxRefs == 3
\* Number of turns of a chat history before the current turn.
MaxHistory == 5

Calls == 1..MaxCalls

VARIABLES
    pc,                  \* per call: the generator's position
    history,             \* per call: the local variable history
    steps,               \* self.agent.memory.steps, shared by all calls
    agent_thread,        \* per call: life cycle of the worker thread
    agent_output,        \* per call: the nonlocal agent_output
    agent_error,         \* per call: the nonlocal agent_error
    current_step_count,  \* per call: the local current_step_count
    last_step_count,     \* per call: the local last_step_count
    joined,              \* per call: agent_thread.join() has returned
    failure,             \* per call: where the turn's exception was raised
    stepsTaken,          \* per call: action steps its agent.run has recorded
    access,              \* per call: assignments to and reads of the two flags
    orphaned             \* per call: closed while its worker was alive

\* The tools, the media extractors, ModelConfig and the context builder are
\* functions of their arguments (and of the files on disk): each of the
\* variables below holds the last application of one of them.
VARIABLES
    tool_call,           \* the last forward() of a tool: arguments and result
    model_config,        \* a ModelConfig object and the last call made on it
    parsed,              \* the last run of a media extractor
    context,             \* the last run of _build_context_from_history
    rendered,            \* the last run of a renderer of the final answer
    stream               \* smolagent_ref.stream_agent_response: one call

\* The variables of stream_agent_response.
runnerVars == <<pc, history, steps, agent_thread, agent_output, agent_error,
                current_step_count, last_step_count, joined, failure,
                stepsTaken, access, orphaned>>

libVars == <<tool_call, model_config, parsed, context, rendered, stream>>

vars == <<runnerVars, libVars>>

(***************************************************************************)
(* Chat entries.  kind tells the shape of the content: "text" (a plain     *)
(* message), "media" (a dict with a path), "thinking" (the placeholder of  *)
(* line 134), "progress" (a snapshot written by the poll loop), "answer"   *)
(* (the "Agent Response" text of line 315) and "error" (line 320).  shown  *)
(* holds, for a progress snapshot, the runs that recorded the steps the    *)
(* snapshot renders and, for a final entry, the runs that recorded the     *)
(* tool outputs the media was parsed from; cur is the step count a         *)
(* progress snapshot was built from.                                       *)
(***************************************************************************)
Entry(role, kind, shown, cur) ==
    [role |-> role, kind |-> kind, shown |-> shown, cur |-> cur]

UserText == Entry("user", "text", {}, 0)
\* An entry whose role is None: role.capitalize() raises on it (line 96).
RoleNoneEntry == Entry("None", "text", {}, 0)
ThinkingMsg == Entry("assistant", "thinking", {}, 0)
ErrorMsg == Entry("assistant", "error", {}, 0)

\* The history argument: None, or a list of entries.
NoneHistory == [none |-> TRUE, items |-> <<>>]
ListHistory(items) == [none |-> FALSE, items |-> items]

HistoryArgs ==
    { NoneHistory,
      ListHistory(<<>>),
      ListHistory(<<UserText, RoleNoneEntry>>) }

\* The text answer of an earlier turn (line 315).
AnswerMsg == Entry("assistant", "answer", {}, 0)

\* The chat after an answered turn and the chat after a failed one, besides
\* the histories above.
TurnArgs ==
    HistoryArgs \cup
    { ListHistory(<<UserText, AnswerMsg>>),
      ListHistory(<<UserText, ThinkingMsg, ErrorMsg>>) }

\* What agent.run may return: free text, or text naming a media path.
AgentOutputs == {"text", "image"}

\* What a recorded action step carries: no tool output, or the status string
\* of the image tool ("Generated ... .png").
StepOutputs == {"none", "png"}

\* Fault: line 121 left out, so that a None argument stays None.
HistOrEmptyKeepsNone(h) == h

\* history = history or []   (line 121)
HistOrEmpty(h) == IF h.none \/ h.items = <<>> THEN ListHistory(<<>>) ELSE h

\* history.append(e)
HistAppend(h, e) == [h EXCEPT !.items = Append(@, e)]

\* Fault: the new content is appended as one more entry.
SetLastAppends(h, e) == [h EXCEPT !.items = Append(@, e)]

\* history[-1]["content"] = ...
SetLast(h, e) == [h EXCEPT !.items = [@ EXCEPT ![Len(@)] = e]]

LastEntry(h) == h.items[Len(h.items)]

\* _build_context_from_history raises when one of the entries of
\* history[-5:-1] has no usable role (lines 82-96).
RecentIndexes(items) ==
    IF Len(items) > 1
    THEN {i \in 1..Len(items) : i >= Len(items) - 4 /\ i < Len(items)}
    ELSE {}
ContextRaises(h) ==
    \E i \in RecentIndexes(h.items) : h.items[i].role = "None"

\* A step of the agent's memory, tagged with the run that recorded it.
TaskStep(c) == [owner |-> c, out |-> "task"]
ActionStep(c, o) == [owner |-> c, out |-> o]

Owners(ss) == {ss[i].owner : i \in 1..Len(ss)}

\* The tool outputs collected from the step log (lines 265-283).
RECURSIVE ToolOutputs(_)
ToolOutputs(ss) ==
    IF ss = <<>> THEN <<>>
    ELSE IF ss[1].out = "png"
         THEN <<ss[1]>> \o ToolOutputs(Tail(ss))
         ELSE ToolOutputs(Tail(ss))

\* Fault: the thread counts as alive only until agent.run has begun.
IsAliveOnlyBeforeRun(c) == agent_thread[c] = "started"

\* Fault: the thread counts as alive from its start on, also when it ended.
IsAliveOnceStarted(c) == agent_thread[c] # "none"

\* agent_thread.is_alive()   (line 173)
IsAlive(c) == agent_thread[c] \in {"started", "running"}

\* agent_thread.join() returns once the thread is no longer alive (line 242).
JoinReturns(c) == ~IsAlive(c)

\* The thread has ended: run_agent returned after storing the result or
\* the exception, or (never, as the code stands) died of an exception that
\* left run_agent.
Terminated(c) == agent_thread[c] \in {"returned", "raised", "died"}

YieldPos == {"y_user", "y_think", "y_poll", "y_final", "y_error"}
FinalPos == {"y_final", "y_error"}
\* From the thread start to the rendering of the result (lines 165-315).
LoopPos == {"loop", "build", "y_poll", "join", "finish"}

\* Assignments to agent_output (out) and agent_error (err) made by the worker,
\* assignments to either flag made by the polling thread (poller), and whether
\* the polling thread has read the flags (read).
NoAccess == [out |-> 0, err |-> 0, poller |-> 0, read |-> FALSE]

\* No tool has been called, no extractor and no context builder has run.
NoToolCall ==
    [tool |-> "none", model |-> "", mode |-> "", image_type |-> "",
     num_images |-> 0, duration |-> 0, failing |-> "none",
     payload |-> "absent",
     submitted |-> [backend |-> "none", model_id |-> "", count |-> 0,
                    duration |-> 0],
     ret |-> [kind |-> "unset", exc |-> "none", text |-> <<>>,
              written |-> <<>>]]
NoParse == [fn |-> "none", text |-> <<>>, disk |-> {}, out |-> <<>>]
NoContext == [impl |-> "none", history |-> <<>>, out |-> <<>>]
\* No renderer has run; the generator of smolagent_ref has not been called.
NoRender ==
    [impl |-> "none", observations |-> <<>>, text |-> <<>>, disk |-> {},
     action |-> FALSE, tool_calls |-> <<>>, arity |-> 0, imgs |-> <<>>,
     video |-> <<>>, out |-> <<>>]
NoStream ==
    [pc |-> "idle", prior |-> <<>>, messages |-> <<>>,
     new_ui_messages |-> <<>>, step |-> 0]

\* model_config = ModelConfig(mode="fast")   (model_config.py line 69)

\* ModelConfig.MODELS   (model_config.py lines 10-21)
MODELS ==
    [fast |-> [image_generation |-> "fal-ai/gemini-25-flash-image",
               video_generation |-> "fal-ai/veo3/fast",
               image_edit |-> "fal-ai/nano-banana/edit"],
     pro |-> [image_generation |-> "fal-ai/flux-pro/v1.1-ultra",
              video_generation |-> "fal-ai/veo3",
              image_edit |-> "fal-ai/nano-banana/edit"]]

\* model_config = ModelConfig(mode="fast")   (model_config.py line 69)
GlobalModelConfig ==
    [mode |-> "fast", _config |-> MODELS["fast"], op |-> "__init__",
     arg |-> "fast", result |-> "None"]

InitLib ==
    /\ tool_call = NoToolCall
    /\ model_config = GlobalModelConfig
    /\ parsed = NoParse
    /\ context = NoContext
    /\ rendered = NoRender
    /\ stream = NoStream

InitRunner ==
    /\ pc = [c \in Calls |-> "idle"]
    /\ history = [c \in Calls |-> NoneHistory]
    /\ steps = <<>>
    /\ agent_thread = [c \in Calls |-> "none"]
    /\ agent_output = [c \in Calls |-> "unbound"]
    /\ agent_error = [c \in Calls |-> "unbound"]
    /\ current_step_count = [c \in Calls |-> 0]
    /\ last_step_count = [c \in Calls |-> 0]
    /\ joined = [c \in Calls |-> FALSE]
    /\ failure = [c \in Calls |-> "none"]
    /\ stepsTaken = [c \in Calls |-> 0]
    /\ access = [c \in Calls |-> NoAccess]
    /\ orphaned = [c \in Calls |-> FALSE]

Init == InitRunner /\ InitLib

(***************************************************************************)
(* The polling thread: the generator body.                                 *)
(***************************************************************************)

\* except Exception as e: history.append(error entry); yield history
\* (lines 319-322).  A history that is still None has no append: the
\* AttributeError leaves the handler and reaches the caller.
Except(c, h, where) ==
    /\ failure' = [failure EXCEPT ![c] = where]
    /\ IF h.none
       THEN /\ history' = [history EXCEPT ![c] = h]
            /\ pc' = [pc EXCEPT ![c] = "raised"]
       ELSE /\ history' = [history EXCEPT ![c] = HistAppend(h, ErrorMsg)]
            /\ pc' = [pc EXCEPT ![c] = "y_error"]

\* The first next(): lines 119-123, up to the yield of the user message,
\* for a history argument out of args.
CallWith(c, args) ==
    /\ pc[c] = "idle"
    /\ IF c = 1 THEN TRUE ELSE pc[c - 1] # "idle"
    /\ \E arg \in args :
          LET h == HistOrEmpty(arg) IN
          IF h.none
          THEN Except(c, h, "append")
          ELSE /\ history' = [history EXCEPT ![c] = HistAppend(h, UserText)]
               /\ pc' = [pc EXCEPT ![c] = "y_user"]
               /\ UNCHANGED failure
    /\ UNCHANGED <<steps, agent_thread, agent_output, agent_error,
                   current_step_count, last_step_count, joined, stepsTaken,
                   access, orphaned>>

Call(c) == CallWith(c, HistoryArgs)

\* Lines 125-137: build the context, append the placeholder, yield.
\* self.agent.logs = [] does not touch self.agent.memory.steps.
BuildContext(c) ==
    /\ pc[c] = "y_user"
    /\ IF ContextRaises(history[c])
       THEN Except(c, history[c], "context")
       ELSE /\ history' = [history EXCEPT ![c] = HistAppend(@, ThinkingMsg)]
            /\ pc' = [pc EXCEPT ![c] = "y_think"]
            /\ UNCHANGED failure
    /\ UNCHANGED <<steps, agent_thread, agent_output, agent_error,
                   current_step_count, last_step_count, joined, stepsTaken,
                   access, orphaned>>

\* Lines 139-170: initialise the locals and the two flags, start the thread.
StartWorker(c) ==
    /\ pc[c] = "y_think"
    /\ last_step_count' = [last_step_count EXCEPT ![c] = 0]
    /\ agent_output' = [agent_output EXCEPT ![c] = "None"]
    /\ agent_error' = [agent_error EXCEPT ![c] = "None"]
    /\ access' = [access EXCEPT ![c].poller = @ + 2]
    /\ agent_thread' = [agent_thread EXCEPT ![c] = "started"]
    /\ pc' = [pc EXCEPT ![c] = "loop"]
    /\ UNCHANGED <<history, steps, current_step_count, joined, failure,
                   stepsTaken, orphaned>>

\* The loop test of line 173, reached from the thread start or, after the
\* consumer resumed the generator at line 236, through lines 237-239.  A live
\* thread leads to the read of the step count (line 175).
LoopTest(c) ==
    /\ pc[c] \in {"loop", "y_poll"}
    /\ last_step_count' =
          [last_step_count EXCEPT
             ![c] = IF pc[c] = "y_poll" THEN current_step_count[c] ELSE @]
    /\ IF IsAlive(c)
       THEN /\ current_step_count' =
                  [current_step_count EXCEPT ![c] = Len(steps)]
            /\ pc' = [pc EXCEPT ![c] = "build"]
       ELSE /\ pc' = [pc EXCEPT ![c] = "join"]
            /\ UNCHANGED current_step_count
    /\ UNCHANGED <<history, steps, agent_thread, agent_output, agent_error,
                   joined, failure, stepsTaken, access, orphaned>>

\* Lines 176-236: render every step now in the step log into the snapshot,
\* store it in the last entry and yield.
Snapshot(c) ==
    Entry("assistant", "progress", Owners(steps), current_step_count[c])

PollYield(c) ==
    /\ pc[c] = "build"
    /\ history' = [history EXCEPT ![c] = SetLast(@, Snapshot(c))]
    /\ pc' = [pc EXCEPT ![c] = "y_poll"]
    /\ UNCHANGED <<steps, agent_thread, agent_output, agent_error,
                   current_step_count, last_step_count, joined, failure,
                   stepsTaken, access, orphaned>>

\* agent_thread.join()   (line 242).  The two step counters are not read
\* again (line 245 only feeds step_start_times) and are cleared here.
Join(c) ==
    /\ pc[c] = "join"
    /\ JoinReturns(c)
    /\ joined' = [joined EXCEPT ![c] = TRUE]
    /\ pc' = [pc EXCEPT ![c] = "finish"]
    /\ current_step_count' = [current_step_count EXCEPT ![c] = 0]
    /\ last_step_count' = [last_step_count EXCEPT ![c] = 0]
    /\ UNCHANGED <<history, steps, agent_thread, agent_output, agent_error,
                   failure, stepsTaken, access, orphaned>>

\* Lines 289-315: the final entry.  Tool outputs win over agent_output; both
\* regular expressions of lines 55 and 68 are applied to the chosen text.
FinalEntry(c) ==
    LET tool_outputs == ToolOutputs(steps) IN
    IF tool_outputs # <<>>
    THEN Entry("assistant", "media", Owners(tool_outputs), 0)
    ELSE IF agent_output[c] \in {"image", "video"}
         THEN Entry("assistant", "media", {}, 0)
         ELSE Entry("assistant", "answer", {}, 0)

\* Lines 244-317: read the flags; re-raise the worker's exception, or scan
\* the step log, parse the media paths and yield the final history.  raises
\* stands for an exception raised by lines 264-315 themselves.
Finish(c) ==
    /\ pc[c] = "finish"
    /\ access' = [access EXCEPT ![c].read = TRUE]
    /\ IF agent_error[c] # "None"
       THEN Except(c, history[c], "worker")
       ELSE \E raises \in BOOLEAN :
              IF raises
              THEN Except(c, history[c], "parse")
              ELSE /\ history' =
                        [history EXCEPT ![c] = SetLast(@, FinalEntry(c))]
                   /\ pc' = [pc EXCEPT ![c] = "y_final"]
                   /\ UNCHANGED failure
    /\ UNCHANGED <<steps, agent_thread, agent_output, agent_error,
                   current_step_count, last_step_count, joined, stepsTaken,
                   orphaned>>

\* Fault: a statement after the yield of line 317 raises inside the try, so
\* that the handler of line 319 yields a second final history.
ReturnAfterFinalYieldsAgain(c) ==
    /\ pc[c] \in FinalPos
    /\ IF pc[c] = "y_final"
       THEN Except(c, history[c], "parse")
       ELSE pc' = [pc EXCEPT ![c] = "done"] /\ UNCHANGED <<history, failure>>
    /\ UNCHANGED <<steps, agent_thread, agent_output, agent_error,
                   current_step_count, last_step_count, joined, stepsTaken,
                   access, orphaned>>

\* The consumer resumes the generator after its final yield (line 317 or
\* line 322): the body ends and its frame, with history and the two flags of
\* the joined thread, is gone.
Return(c) ==
    /\ pc[c] \in FinalPos
    /\ pc' = [pc EXCEPT ![c] = "done"]
    /\ history' = [history EXCEPT ![c] = NoneHistory]
    /\ agent_output' = [agent_output EXCEPT ![c] = "unbound"]
    /\ agent_error' = [agent_error EXCEPT ![c] = "unbound"]
    /\ UNCHANGED <<steps, agent_thread, current_step_count, last_step_count,
                   joined, failure, stepsTaken, access, orphaned>>

\* Fault: closing the generator stops its worker thread.
CloseCancelsWorker(c) ==
    /\ pc[c] \in YieldPos
    /\ pc' = [pc EXCEPT ![c] = "closed"]
    /\ history' = [history EXCEPT ![c] = NoneHistory]
    /\ current_step_count' = [current_step_count EXCEPT ![c] = 0]
    /\ last_step_count' = [last_step_count EXCEPT ![c] = 0]
    /\ agent_thread' =
          [agent_thread EXCEPT ![c] = IF IsAlive(c) THEN "cancelled" ELSE @]
    /\ orphaned' = [orphaned EXCEPT ![c] = IsAlive(c)]
    /\ UNCHANGED <<steps, agent_output, agent_error, joined, failure,
                   stepsTaken, access>>

\* The consumer abandons the generator at a yield: GeneratorExit is raised
\* there, and it is no Exception, so neither handler (lines 258, 319) runs.
\* Nothing tells the worker thread; the frame's own locals are gone.
Close(c) ==
    /\ pc[c] \in YieldPos
    /\ pc' = [pc EXCEPT ![c] = "closed"]
    /\ history' = [history EXCEPT ![c] = NoneHistory]
    /\ current_step_count' = [current_step_count EXCEPT ![c] = 0]
    /\ last_step_count' = [last_step_count EXCEPT ![c] = 0]
    /\ orphaned' = [orphaned EXCEPT ![c] = IsAlive(c)]
    /\ UNCHANGED <<steps, agent_thread, agent_output, agent_error, joined,
                   failure, stepsTaken, access>>

(***************************************************************************)
(* The worker thread: run_agent (lines 156-161).                           *)
(***************************************************************************)

\* agent.run begins (line 159): called without reset=False, the agent
\* replaces its memory's step list by a new one and records the task as the
\* first step of the new run.
RunBegin(c) ==
    /\ agent_thread[c] = "started"
    /\ steps' = <<TaskStep(c)>>
    /\ agent_thread' = [agent_thread EXCEPT ![c] = "running"]
    /\ UNCHANGED <<pc, history, agent_output, agent_error,
                   current_step_count, last_step_count, joined, failure,
                   stepsTaken, access, orphaned>>

\* agent.run records one finished action step in the agent's memory.
RunStep(c) ==
    /\ agent_thread[c] = "running"
    /\ stepsTaken[c] < MaxSteps
    /\ \E o \in StepOutputs : steps' = Append(steps, ActionStep(c, o))
    /\ stepsTaken' = [stepsTaken EXCEPT ![c] = @ + 1]
    /\ UNCHANGED <<pc, history, agent_thread, agent_output, agent_error,
                   current_step_count, last_step_count, joined, failure,
                   access, orphaned>>

\* agent_output = self.agent.run(...)   (line 159), then the thread ends.
RunReturn(c) ==
    /\ agent_thread[c] = "running"
    /\ \E o \in AgentOutputs : agent_output' = [agent_output EXCEPT ![c] = o]
    /\ access' = [access EXCEPT ![c].out = @ + 1]
    /\ agent_thread' = [agent_thread EXCEPT ![c] = "returned"]
    /\ stepsTaken' = [stepsTaken EXCEPT ![c] = 0]
    /\ UNCHANGED <<pc, history, steps, agent_error, current_step_count,
                   last_step_count, joined, failure, orphaned>>

\* Fault: run_agent without its try: the exception ends the thread and
\* nothing is stored.
RunRaiseUncaught(c) ==
    /\ agent_thread[c] = "running"
    /\ agent_thread' = [agent_thread EXCEPT ![c] = "died"]
    /\ stepsTaken' = [stepsTaken EXCEPT ![c] = 0]
    /\ UNCHANGED <<pc, history, steps, agent_output, agent_error,
                   current_step_count, last_step_count, joined, failure,
                   access, orphaned>>

\* Fault: the handler of line 160 also assigns agent_output.
RunRaiseClearsOutput(c) ==
    /\ agent_thread[c] = "running"
    /\ agent_error' = [agent_error EXCEPT ![c] = "error"]
    /\ agent_output' = [agent_output EXCEPT ![c] = "None"]
    /\ access' = [access EXCEPT ![c].err = @ + 1, ![c].out = @ + 1]
    /\ agent_thread' = [agent_thread EXCEPT ![c] = "raised"]
    /\ stepsTaken' = [stepsTaken EXCEPT ![c] = 0]
    /\ UNCHANGED <<pc, history, steps, current_step_count, last_step_count,
                   joined, failure, orphaned>>

\* except Exception as e: agent_error = e   (lines 160-161), then the
\* thread ends.
RunRaise(c) ==
    /\ agent_thread[c] = "running"
    /\ agent_error' = [agent_error EXCEPT ![c] = "error"]
    /\ access' = [access EXCEPT ![c].err = @ + 1]
    /\ agent_thread' = [agent_thread EXCEPT ![c] = "raised"]
    /\ stepsTaken' = [stepsTaken EXCEPT ![c] = 0]
    /\ UNCHANGED <<pc, history, steps, agent_output, current_step_count,
                   last_step_count, joined, failure, orphaned>>

\* The generator's steps after its first one.
Resume(c) ==
    \/ BuildContext(c)
    \/ StartWorker(c)
    \/ LoopTest(c)
    \/ PollYield(c)
    \/ Join(c)
    \/ Finish(c)
    \/ Return(c)

Worker(c) ==
    \/ RunBegin(c)
    \/ RunStep(c)
    \/ RunReturn(c)
    \/ RunRaise(c)

\* Any number of calls may be in progress at once: handle_input is bound to
\* two events (lines 413-424) and each event runs the generator on its own.
Next ==
    /\ \E c \in Calls : Call(c) \/ Resume(c) \/ Close(c) \/ Worker(c)
    /\ UNCHANGED libVars

Spec == Init /\ [][Next]_vars

\* A call is over: its generator has ended or was closed, and its worker, if
\* it started one, has terminated.
Over(c) == pc[c] \in {"done", "closed"} /\ ~IsAlive(c)

\* The turns of one conversation, one after the other: a call begins only
\* when every earlier call is over.
SerialCall(c) == Call(c) /\ \A d \in Calls : d < c => Over(d)

NextSerial ==
    /\ \E c \in Calls : SerialCall(c) \/ Resume(c) \/ Close(c) \/ Worker(c)
    /\ UNCHANGED libVars

SpecSerial == Init /\ [][NextSerial]_vars

\* The turns of one conversation, each given one of the chats of TurnArgs.
TurnCall(c) == CallWith(c, TurnArgs) /\ \A d \in Calls : d < c => Over(d)

NextTurns ==
    /\ \E c \in Calls : TurnCall(c) \/ Resume(c) \/ Close(c) \/ Worker(c)
    /\ UNCHANGED libVars

SpecTurns == Init /\ [][NextTurns]_vars

\* The worker threads are scheduled by the operating system: a runnable
\* thread eventually takes its next step, and agent.run ends after at most
\* max_steps steps.
WorkerFair == \A c \in Calls : WF_vars(Worker(c) /\ UNCHANGED libVars)

\* A consumer that keeps asking a generator it holds for the next value.
ConsumerFair == \A c \in Calls : WF_vars(Resume(c) /\ UNCHANGED libVars)

SpecSerialWorkerFair == SpecSerial /\ WorkerFair

SpecSerialFair == SpecSerial /\ WorkerFair /\ ConsumerFair

(***************************************************************************)
(* Text.  A string is a sequence of tokens, each standing for a run of     *)
(* characters: "/", ".", "," and " " (white space) stand for themselves,   *)
(* "http:" and "https:" for a URL scheme with its colon, "png", "jpg",     *)
(* "jpeg", "webp", "mp4", "mov", "avi" and "webm" for these letters, and   *)
(* every other token for a run of characters that holds no white space,    *)
(* no slash and no dot.                                                    *)
(***************************************************************************)
StartsWith(text, prefix) ==
    /\ Len(text) >= Len(prefix)
    /\ SubSeq(text, 1, Len(prefix)) = prefix

\* sep.join(parts)
RECURSIVE StrJoin(_, _)
StrJoin(parts, sep) ==
    IF parts = <<>> THEN <<>>
    ELSE IF Len(parts) = 1 THEN parts[1]
    ELSE parts[1] \o sep \o StrJoin(Tail(parts), sep)

\* d.get(k)
DictGet(d, k) == IF k \in DOMAIN d THEN d[k] ELSE "None"

(***************************************************************************)
(* The tools (src/src/tools/fal_tools.py).  A forward() is a function of   *)
(* its arguments and of what the outside world does during the call:       *)
(* failing is the first step of the call that raises an exception (the     *)
(* local read of the image to edit, the remote call, the download, the     *)
(* decoding of the downloaded bytes, the write of the result file) and     *)
(* payload is the shape of the result the backing API hands back.          *)
(***************************************************************************)
Stages == {"none", "read", "remote", "download", "decode", "write"}

\* The result of the backing API: not a dict at all, a dict without the
\* expected field, an empty list, one entry without a url, one or two
\* entries with a url.
Payloads == {"malformed", "absent", "empty", "nourl", "one", "two"}
VideoPayloads == {"malformed", "absent", "nourl", "one"}

\* Model names in and outside FalImageGenerationTool.models; "flux_krea" is
\* the name its description gives, "veo3" is a name of the video tool.
ModelArgs == {"flux-krea", "flux_krea", "seedream4", "veo3"}
ModeArgs == {"fast", "pro", "turbo"}
ImageTypeArgs == {"general", "anime"}
NumImagesArgs == {-1, 0, 1, 4, 5, 999}
DurationArgs == {0, 3, 4, 5, 6, 8, 9}

\* self.models of FalImageGenerationTool   (lines 106-112)
ImageModels ==
    ("nano-banana" :> "fal-ai/nano-banana") @@
    ("seedream4" :> "fal-ai/bytedance/seedream/v4/text-to-image") @@
    ("imagen4_ultra" :> "fal-ai/imagen4/preview/ultra") @@
    ("flux-krea" :> "fal-ai/flux/krea") @@
    ("flux-schnell" :> "fal-ai/flux/krea")

\* tempfile.NamedTemporaryFile(delete=False, suffix=...).name: the i-th
\* file a call creates; the names of one call differ from each other.
TempPath(i, suffix) ==
    <<"/", "tmp", "/", IF i = 1 THEN "tmpa" ELSE "tmpb", ".", suffix>>

TempPaths(n, suffix) == [i \in 1..n |-> TempPath(i, suffix)]

\* str(e) of the exception caught.
ErrorText == <<"timeout">>

\* What a function body does: it returns a string, returns None (falls off
\* its end), or raises an exception of some class.
Returned(text, written) ==
    [kind |-> "str", exc |-> "none", text |-> text, written |-> written]
ReturnedNone ==
    [kind |-> "None", exc |-> "none", text |-> <<>>, written |-> <<>>]
Raised(exc) ==
    [kind |-> "raise", exc |-> exc, text |-> ErrorText, written |-> <<>>]

\* The exception a failing step raises: the HTTP libraries' errors for the
\* remote call and the download, PIL's for bytes that are no image, OSError
\* for the local file system.
StageError(failing) ==
    IF failing \in {"remote", "download"} THEN "RequestException"
    ELSE IF failing = "decode" THEN "UnidentifiedImageError"
    ELSE "OSError"

\* Fault: the handler catches only the errors of the HTTP library, so that
\* a failure to decode or to write leaves forward.
TryExceptRequestsOnly(outcome, prefix) ==
    IF outcome.kind = "raise" /\ outcome.exc = "RequestException"
    THEN [Returned(prefix \o outcome.text, <<>>) EXCEPT !.exc = outcome.exc]
    ELSE outcome

\* try: ... except Exception as e: return f"<prefix>{str(e)}"
\* (lines 136/219-220, 277/321-322, 361/415-416); exc keeps the class of
\* the exception that was caught.
TryExcept(outcome, prefix) ==
    IF outcome.kind = "raise"
    THEN [Returned(prefix \o outcome.text, <<>>) EXCEPT !.exc = outcome.exc]
    ELSE outcome

\* Fault: the paths are joined by a comma without the following blank.
ImageStatusCommaOnly(paths) ==
    <<"Generated", " ", ToString(Len(paths)), " ", "image(s):", " ">>
        \o StrJoin(paths, <<",">>)

\* f"Generated {len(image_paths)} image(s): {', '.join(image_paths)}"
\* (line 217)
ImageStatus(paths) ==
    <<"Generated", " ", ToString(Len(paths)), " ", "image(s):", " ">>
        \o StrJoin(paths, <<",", " ">>)

\* f"Generated video saved to: {temp_file.name}"   (line 316)
VideoStatus(path) ==
    <<"Generated", " ", "video", " ", "saved", " ", "to:", " ">> \o path

\* f"Edited image saved to: {temp_file.name}"   (line 410)
EditStatus(path) ==
    <<"Edited", " ", "image", " ", "saved", " ", "to:", " ">> \o path

\* The texts of lines 220, 322 and 416 up to str(e).
ImageErrorPrefix == <<"Error", " ", "generating", " ", "images:", " ">>
VideoErrorPrefix == <<"Error", " ", "generating", " ", "video:", " ">>
EditErrorPrefix == <<"Error", " ", "editing", " ", "image:", " ">>

\* The condition of line 138: the Prodia job is used instead of fal.ai.
FastPath(model, mode) ==
    mode = "fast" \/ model \in {"flux-schnell", "flux_krea", "flux-krea"}

\* What FalImageGenerationTool.forward asks of the backing API: the Prodia
\* job of lines 139-147 carries no count and yields one image; the fal.ai
\* arguments of lines 175-181 carry model_id and num_images as given.
ImageSubmitted(model, mode, num_images) ==
    IF FastPath(model, mode)
    THEN [backend |-> "prodia",
          model_id |-> "inference.flux-fast.schnell.txt2img.v2",
          count |-> 1, duration |-> 0]
    ELSE [backend |-> "fal", model_id |-> DictGet(ImageModels, model),
          count |-> num_images, duration |-> 0]

\* The number of entries of result["images"] that carry a url.
UrlCount(payload) ==
    IF payload = "one" THEN 1 ELSE IF payload = "two" THEN 2 ELSE 0

\* The body of FalImageGenerationTool.forward   (lines 137-217)
ImageBody(model, mode, num_images, failing, payload) ==
    IF FastPath(model, mode)
    THEN IF failing \in {"remote", "decode", "write"}
         THEN Raised(StageError(failing))
         ELSE Returned(ImageStatus(TempPaths(1, "png")), TempPaths(1, "png"))
    ELSE IF failing = "remote"
         THEN Raised(StageError(failing))
         ELSE IF payload = "malformed"
         THEN Raised("TypeError")
         ELSE IF UrlCount(payload) > 0
                 /\ failing \in {"download", "decode", "write"}
              THEN Raised(StageError(failing))
              ELSE Returned(ImageStatus(TempPaths(UrlCount(payload), "png")),
                            TempPaths(UrlCount(payload), "png"))

ImageForward(model, mode, num_images, failing, payload) ==
    TryExcept(ImageBody(model, mode, num_images, failing, payload),
              ImageErrorPrefix)

Min(a, b) == IF a < b THEN a ELSE b
Max(a, b) == IF a > b THEN a ELSE b

\* Lines 280-286: the model is fixed and the duration is
\* min(max(duration, 6), 6).
VideoSubmitted(duration) ==
    [backend |-> "fal",
     model_id |-> "fal-ai/bytedance/seedance/v1/pro/fast/text-to-video",
     count |-> 0, duration |-> Min(Max(duration, 6), 6)]

\* The body of FalVideoGenerationTool.forward   (lines 278-316).  A "video"
\* entry without a url makes requests.get(None) raise.
VideoBody(failing, payload) ==
    IF failing = "remote"
    THEN Raised(StageError(failing))
    ELSE IF payload = "malformed"
    THEN Raised("TypeError")
    ELSE IF payload = "absent"
         THEN ReturnedNone
         ELSE IF payload = "nourl"
              THEN Raised("RequestException")
              ELSE IF failing \in {"download", "write"}
              THEN Raised(StageError(failing))
              ELSE Returned(VideoStatus(TempPath(1, "mp4")),
                            <<TempPath(1, "mp4")>>)

VideoForward(failing, payload) ==
    TryExcept(VideoBody(failing, payload), VideoErrorPrefix)

\* Lines 364-377: the model and the size are fixed.
EditSubmitted ==
    [backend |-> "fal", model_id |-> "fal-ai/bytedance/seedream/v4/edit",
     count |-> 0, duration |-> 0]

\* The body of FalImageEditTool.forward   (lines 362-410)
EditBody(failing, payload) ==
    IF failing \in {"read", "remote"}
    THEN Raised(StageError(failing))
    ELSE IF payload = "malformed"
    THEN Raised("TypeError")
    ELSE IF payload \in {"absent", "empty"}
         THEN ReturnedNone
         ELSE IF payload = "nourl"
              THEN Raised("RequestException")
              ELSE IF failing \in {"download", "decode", "write"}
              THEN Raised(StageError(failing))
              ELSE Returned(EditStatus(TempPath(1, "png")),
                            <<TempPath(1, "png")>>)

EditForward(failing, payload) ==
    TryExcept(EditBody(failing, payload), EditErrorPrefix)

(***************************************************************************)
(* The media extractors: parse_image_paths and parse_video_paths of        *)
(* src/src/core/utils.py, and the methods of the same names of             *)
(* SmolagentFalApp (src/src/agents/smolagent.py).  Each is re.findall with *)
(* one pattern, (prefix)[^\s]+\.(extension).                               *)
(***************************************************************************)
Whitespace == {" ", "\n"}
Schemes == {"http:", "https:"}

\* png|jpg|jpeg|webp (utils.py line 22), png|jpg|jpeg (smolagent.py line
\* 55), mp4|mov|avi|webm (utils.py line 47, smolagent.py line 68).
ImageExts == {"png", "jpg", "jpeg", "webp"}
AppImageExts == {"png", "jpg", "jpeg"}
VideoExts == {"mp4", "mov", "avi", "webm"}

\* The length of the prefix matched at position i: "/" or, where the
\* pattern has it, "https?://"; 0 when neither matches there.
PrefixLen(text, i, url) ==
    IF text[i] = "/" THEN 1
    ELSE IF /\ url
            /\ text[i] \in Schemes
            /\ i + 2 <= Len(text)
            /\ text[i + 1] = "/"
            /\ text[i + 2] = "/"
         THEN 3
         ELSE 0

\* The end of the match that starts at position i, 0 when there is none:
\* [^\s]+ is greedy, so the match ends at the last ".ext" that a run of
\* non-blank characters, at least one of them before the dot, leads to.
MatchEnd(text, i, url, exts) ==
    LET p == PrefixLen(text, i, url)
        ends == {e \in (i + p + 2)..Len(text) :
                    /\ text[e] \in exts
                    /\ text[e - 1] = "."
                    /\ \A k \in (i + p)..e : text[k] \notin Whitespace}
    IN  IF p = 0 \/ ends = {} THEN 0
        ELSE CHOOSE e \in ends : \A f \in ends : f <= e

\* re.findall(pattern, text): the matches from left to right, each search
\* starting where the match before it ended.
RECURSIVE FindAll(_, _, _, _)
FindAll(text, i, url, exts) ==
    IF i > Len(text) THEN <<>>
    ELSE LET e == MatchEnd(text, i, url, exts) IN
         IF e = 0
         THEN FindAll(text, i + 1, url, exts)
         ELSE <<SubSeq(text, i, e)>> \o FindAll(text, e + 1, url, exts)

\* list(dict.fromkeys(matches))
RECURSIVE Unique(_)
Unique(matches) ==
    IF matches = <<>> THEN <<>>
    ELSE LET front == Unique(SubSeq(matches, 1, Len(matches) - 1))
             last == matches[Len(matches)]
         IN  IF \E i \in 1..Len(front) : front[i] = last
             THEN front
             ELSE Append(front, last)

\* path.startswith(("http://", "https://"))
StartsWithHttp(path) ==
    \E s \in Schemes : StartsWith(path, <<s, "/", "/">>)

\* Fault: the existence check of the local paths left out.
ValidPathsUnchecked(unique_matches, disk) == unique_matches

\* The loop of utils.py lines 27-32 and 52-57; os.path.exists(path) is
\* path \in disk.
ValidPaths(unique_matches, disk) ==
    LET Keep(path) == StartsWithHttp(path) \/ path \in disk
    IN  SelectSeq(unique_matches, Keep)

\* utils.py lines 12-34
parse_image_paths(text, disk) ==
    ValidPaths(Unique(FindAll(text, 1, TRUE, ImageExts)), disk)

\* utils.py lines 37-59
parse_video_paths(text, disk) ==
    ValidPaths(Unique(FindAll(text, 1, TRUE, VideoExts)), disk)

\* smolagent.py lines 46-57
App_parse_image_paths(text) == FindAll(text, 1, FALSE, AppImageExts)

\* smolagent.py lines 59-70
App_parse_video_paths(text) == FindAll(text, 1, FALSE, VideoExts)

Extractors ==
    {"parse_image_paths", "parse_video_paths",
     "App.parse_image_paths", "App.parse_video_paths"}
ImageExtractors == {"parse_image_paths", "App.parse_image_paths"}
VideoExtractors == {"parse_video_paths", "App.parse_video_paths"}

\* The extractor named fn applied to text, with the files of disk existing.
Extract(fn, text, disk) ==
    IF fn = "parse_image_paths" THEN parse_image_paths(text, disk)
    ELSE IF fn = "parse_video_paths" THEN parse_video_paths(text, disk)
    ELSE IF fn = "App.parse_image_paths" THEN App_parse_image_paths(text)
    ELSE App_parse_video_paths(text)

Range(seq) == {seq[i] : i \in 1..Len(seq)}

(***************************************************************************)
(* ModelConfig (src/config/model_config.py); MODELS is defined above.       *)
(***************************************************************************)
TaskArgs ==
    {"image_generation", "video_generation", "image_edit", "upscale", ""}

\* ModelConfig(mode)   (lines 23-30): self.mode = mode, then
\* self._config = self.MODELS[mode], which raises KeyError for a mode that
\* is no key; the object under construction is then lost and the object
\* held stays as it was.
NewModelConfig(mode) ==
    /\ tool_call = NoToolCall
    /\ model_config' =
          IF mode \in DOMAIN MODELS
          THEN [mode |-> mode, _config |-> MODELS[mode], op |-> "__init__",
                arg |-> mode, result |-> "None"]
          ELSE [model_config EXCEPT
                  !.op = "__init__", !.arg = mode, !.result = "KeyError"]
    /\ UNCHANGED <<runnerVars, tool_call, parsed, context, rendered, stream>>

\* set_mode(mode)   (lines 43-50): self.mode is assigned before the lookup
\* of line 50 can raise.
SetMode(mode) ==
    /\ tool_call = NoToolCall
    /\ model_config' =
          [mode |-> mode,
           _config |-> IF mode \in DOMAIN MODELS
                       THEN MODELS[mode] ELSE model_config._config,
           op |-> "set_mode", arg |-> mode,
           result |-> IF mode \in DOMAIN MODELS THEN "None" ELSE "KeyError"]
    /\ UNCHANGED <<runnerVars, tool_call, parsed, context, rendered, stream>>

\* get_model(task)   (lines 32-41): self._config[task]
GetModel(task) ==
    /\ tool_call = NoToolCall
    /\ model_config' =
          [model_config EXCEPT
             !.op = "get_model", !.arg = task,
             !.result = IF task \in DOMAIN model_config._config
                        THEN model_config._config[task] ELSE "KeyError"]
    /\ UNCHANGED <<runnerVars, tool_call, parsed, context, rendered, stream>>

(***************************************************************************)
(* A tool invocation, and the extraction of the media paths from the       *)
(* string it returned.  The tools do not read ModelConfig, so a behaviour  *)
(* exercises either one tool or the ModelConfig object.                    *)
(***************************************************************************)
ToolCall(tool, model, mode, image_type, num_images, duration, failing, payload, submitted, ret) ==
    [tool |-> tool, model |-> model, mode |-> mode,
     image_type |-> image_type, num_images |-> num_images,
     duration |-> duration, failing |-> failing, payload |-> payload,
     submitted |-> submitted, ret |-> ret]

NoTool == tool_call = NoToolCall /\ model_config = GlobalModelConfig

\* FalImageGenerationTool.forward   (lines 114-220).  width, height and
\* prompt are handed on as they are; image_type is not read.
ForwardImage ==
    /\ NoTool
    /\ \E model \in ModelArgs, mode \in ModeArgs, num_images \in NumImagesArgs,
          image_type \in ImageTypeArgs, failing \in Stages,
          payload \in Payloads :
          tool_call' =
             ToolCall("image", model, mode, image_type, num_images, 0,
                      failing, payload,
                      ImageSubmitted(model, mode, num_images),
                      ImageForward(model, mode, num_images, failing, payload))
    /\ UNCHANGED <<runnerVars, model_config, parsed, context, rendered, stream>>

\* FalVideoGenerationTool.forward   (lines 267-322).  model and mode are not
\* read but for the debug output.
ForwardVideo ==
    /\ NoTool
    /\ \E model \in ModelArgs, mode \in ModeArgs, duration \in DurationArgs,
          failing \in Stages, payload \in VideoPayloads :
          tool_call' =
             ToolCall("video", model, mode, "", 0, duration, failing,
                      payload, VideoSubmitted(duration),
                      VideoForward(failing, payload))
    /\ UNCHANGED <<runnerVars, model_config, parsed, context, rendered, stream>>

\* FalImageEditTool.forward   (lines 350-416)
ForwardEdit ==
    /\ NoTool
    /\ \E failing \in Stages, payload \in Payloads :
          tool_call' =
             ToolCall("edit", "", "", "", 0, 0, failing, payload,
                      EditSubmitted, EditForward(failing, payload))
    /\ UNCHANGED <<runnerVars, model_config, parsed, context, rendered, stream>>

\* An extractor applied to the string a tool returned; the files the tool
\* wrote exist.
ParseToolOutput ==
    /\ tool_call.ret.kind = "str"
    /\ parsed = NoParse
    /\ \E fn \in Extractors :
          parsed' =
             [fn |-> fn, text |-> tool_call.ret.text,
              disk |-> Range(tool_call.ret.written),
              out |-> Extract(fn, tool_call.ret.text,
                              Range(tool_call.ret.written))]
    /\ UNCHANGED <<runnerVars, tool_call, model_config, context, rendered, stream>>

NextTools ==
    \/ ForwardImage
    \/ ForwardVideo
    \/ ForwardEdit
    \/ ParseToolOutput
    \/ \E mode \in ModeArgs : NewModelConfig(mode) \/ SetMode(mode)
    \/ \E task \in TaskArgs : GetModel(task)

SpecTools == Init /\ [][NextTools]_vars

(***************************************************************************)
(* The extractors on arbitrary text.  A text is made of at most MaxRefs    *)
(* words, a separator between each two; a word is a local image path that  *)
(* may exist, one that does not, an image URL, a local video path or a     *)
(* plain word.                                                             *)
(***************************************************************************)
PathA == <<"/", "a", ".", "png">>
PathB == <<"/", "b", ".", "png">>
UrlA == <<"https:", "/", "/", "h", "/", "a", ".", "png">>
VideoA == <<"/", "a", ".", "mp4">>

Words == {PathA, PathB, UrlA, VideoA, <<"see">>}
Seps == {<<" ">>, <<",">>}

\* The files that exist: /b.png never does.
Disks == SUBSET {PathA, VideoA}

\* words[1] seps[1] words[2] ... words[n]
RECURSIVE Weave(_, _)
Weave(words, seps) ==
    IF words = <<>> THEN <<>>
    ELSE IF Len(words) = 1 THEN words[1]
    ELSE words[1] \o seps[1] \o Weave(Tail(words), Tail(seps))

Texts ==
    {<<>>} \cup
    UNION {{Weave(ws, ss) : ws \in [1..n -> Words], ss \in [1..(n - 1) -> Seps]}
              : n \in 1..MaxRefs}

InitExtract ==
    /\ InitRunner
    /\ tool_call = NoToolCall
    /\ model_config = GlobalModelConfig
    /\ context = NoContext
    /\ rendered = NoRender
    /\ stream = NoStream
    /\ parsed \in {[fn |-> "none", text |-> t, disk |-> d, out |-> <<>>] :
                      t \in Texts, d \in Disks}

\* One extractor applied to the text.
Parse(fn) ==
    /\ parsed.fn = "none"
    /\ parsed' = [parsed EXCEPT !.fn = fn,
                                !.out = Extract(fn, parsed.text, parsed.disk)]
    /\ UNCHANGED <<runnerVars, tool_call, model_config, context, rendered, stream>>

ParseImagePaths == Parse("parse_image_paths")
ParseVideoPaths == Parse("parse_video_paths")
AppParseImagePaths == Parse("App.parse_image_paths")
AppParseVideoPaths == Parse("App.parse_video_paths")

NextExtract ==
    \/ ParseImagePaths
    \/ ParseVideoPaths
    \/ AppParseImagePaths
    \/ AppParseVideoPaths

SpecExtract == InitExtract /\ [][NextExtract]_vars

\* The candidates the pattern of the extractor named fn matches in text.
Candidates(fn, text) ==
    IF fn = "parse_image_paths" THEN FindAll(text, 1, TRUE, ImageExts)
    ELSE IF fn = "parse_video_paths" THEN FindAll(text, 1, TRUE, VideoExts)
    ELSE IF fn = "App.parse_image_paths"
         THEN FindAll(text, 1, FALSE, AppImageExts)
         ELSE FindAll(text, 1, FALSE, VideoExts)

(***************************************************************************)
(* The context builder: _build_context_from_history of smolagent.py and    *)
(* of smolagent_ref.py, each with the call that hands it the history.  A *)
(* content is a string (type "str") or a media dict {"path": ...} (type    *)
(* "dict"); value names it: <<"t", i>> is the text of turn i, <<" ", i>>   *)
(* a text of white space only, <<"/tmp/m", i>> the path of a media turn.   *)
(* str() of a dict is a text of type "repr" that spells out its path.      *)
(* The context is the list context_parts; a part is the header, a          *)
(* "<Role>: <content>" line or the "Current request: <content>" line.      *)
(***************************************************************************)
Content(type, value) == [type |-> type, value |-> value]
Msg(role, content) == [role |-> role, content |-> content]

\* The contents a turn before the current one may have: a text, a text of
\* white space only, a media dict.
ContentKinds == {"t", " ", "/tmp/m"}
TurnContent(kind, i) ==
    Content(IF kind = "/tmp/m" THEN "dict" ELSE "str", <<kind, i>>)

\* The turns before the current one: user and assistant take turns, and
\* the last of them is the assistant's.
PriorHistories ==
    UNION {{[i \in 1..n |->
               Msg(IF (n - i) % 2 = 0 THEN "assistant" ELSE "user",
                   TurnContent(kinds[i], i))] :
               kinds \in [1..n -> ContentKinds]}
              : n \in 0..MaxHistory}

\* The message of the current turn.
UserMessage(prior) == Content("str", <<"t", Len(prior) + 1>>)

Part(kind, role, text) == [kind |-> kind, role |-> role, text |-> text]
Header == Part("header", "", Content("str", <<"Previous conversation:", 0>>))

\* role.capitalize()
Capitalize(role) ==
    IF role = "user" THEN "User"
    ELSE IF role = "assistant" THEN "Assistant"
    ELSE "Unknown"

\* str(content), as an f-string applies it
Str(content) ==
    IF content.type = "dict" THEN Content("repr", content.value) ELSE content

\* content.strip() of a string is not empty
NotBlank(content) ==
    content.type = "str" /\ content.value[1] \notin {" ", ""}

\* history[-5:-1] if len(history) > 1 else []   (smolagent.py line 82)
RecentHistory(hist) ==
    IF Len(hist) > 1
    THEN SubSeq(hist, Max(1, Len(hist) - 4), Len(hist) - 1)
    ELSE <<>>

\* smolagent.py lines 72-105.  A dict content has no "text" key, so line 92
\* takes str(content).
build_context_from_history(hist) ==
    LET recent_history == RecentHistory(hist)
        Line(msg) == Part("turn", Capitalize(msg.role), Str(msg.content))
        current_msg == IF hist # <<>>
                       THEN hist[Len(hist)].content
                       ELSE Content("str", <<"", 0>>)
    IN  (IF recent_history # <<>> THEN <<Header>> ELSE <<>>)
        \o [i \in 1..Len(recent_history) |-> Line(recent_history[i])]
        \o <<Part("current", "", Str(current_msg))>>

\* smolagent_ref.py lines 42-80: every entry of the list it is given is
\* walked, dict contents and blank strings are skipped.
RECURSIVE RefLines(_)
RefLines(hist) ==
    IF hist = <<>> THEN <<>>
    ELSE IF NotBlank(hist[1].content)
         THEN <<Part("turn", Capitalize(hist[1].role), hist[1].content)>>
                 \o RefLines(Tail(hist))
         ELSE RefLines(Tail(hist))

ref_build_context_from_history(hist) ==
    LET recent_history == IF Len(hist) > 1 THEN hist ELSE <<>>
        current_msg == IF hist # <<>>
                       THEN hist[Len(hist)].content
                       ELSE Content("str", <<"", 0>>)
    IN  (IF recent_history # <<>> THEN <<Header>> ELSE <<>>)
        \o RefLines(recent_history)
        \o (IF NotBlank(current_msg)
            THEN <<Part("current", "", current_msg)>> ELSE <<>>)

\* history[:-1]
AllButLast(hist) ==
    IF hist = <<>> THEN <<>> ELSE SubSeq(hist, 1, Len(hist) - 1)

InitContext ==
    /\ InitRunner
    /\ tool_call = NoToolCall
    /\ model_config = GlobalModelConfig
    /\ parsed = NoParse
    /\ rendered = NoRender
    /\ stream = NoStream
    /\ context \in {[impl |-> "none", history |-> h, out |-> <<>>] :
                       h \in PriorHistories}

\* smolagent.py lines 122-129: the user message is appended to the history
\* and the context is built from the whole list.
AppContext ==
    /\ context.impl = "none"
    /\ context' =
          [context EXCEPT
             !.impl = "smolagent",
             !.out = build_context_from_history(
                        Append(context.history,
                               Msg("user", UserMessage(context.history))))]
    /\ UNCHANGED <<runnerVars, tool_call, model_config, parsed, rendered, stream>>

\* smolagent_ref.py lines 154-156: the context is built from history[:-1],
\* the history not yet holding the user message, and the current request is
\* added to the string that comes back.
RefContext ==
    /\ context.impl = "none"
    /\ context' =
          [context EXCEPT
             !.impl = "smolagent_ref",
             !.out = ref_build_context_from_history(AllButLast(context.history))
                        \o <<Part("current", "", UserMessage(context.history))>>]
    /\ UNCHANGED <<runnerVars, tool_call, model_config, parsed, rendered, stream>>

NextContext == AppContext \/ RefContext

SpecContext == InitContext /\ [][NextContext]_vars

(***************************************************************************)
(* The renderers of the final answer: lines 264-315 of                     *)
(* SmolagentFalApp.stream_agent_response (src/src/agents/smolagent.py),    *)
(* the tail of stream_from_smolagent (src/src/core/utils.py lines          *)
(* 158-196), _process_step_for_ui of src/src/agents/smolagent_ref.py and   *)
(* GradioInterface.interact_with_agent (src/src/ui/gradio_interface.py).   *)
(* Each turns texts into chat messages; a chat message is Msg("assistant", *)
(* content), its content a string (type "str"), a media dict {"path": ...} *)
(* (type "dict", value the path) or a list of parts (type "list").  The    *)
(* metadata titles of the messages are left out.                           *)
(***************************************************************************)
ChatText(text) == Msg("assistant", Content("str", text))
ChatMedia(path) == Msg("assistant", Content("dict", path))

\* part in text
Contains(text, part) ==
    \E i \in 1..(Len(text) - Len(part) + 1) :
        SubSeq(text, i, i + Len(part) - 1) = part

\* text.strip()
RECURSIVE LStrip(_)
LStrip(text) ==
    IF text # <<>> /\ text[1] \in Whitespace THEN LStrip(Tail(text)) ELSE text

RECURSIVE RStrip(_)
RStrip(text) ==
    IF text # <<>> /\ text[Len(text)] \in Whitespace
    THEN RStrip(SubSeq(text, 1, Len(text) - 1))
    ELSE text

Strip(text) == RStrip(LStrip(text))

\* The number of characters a token stands for: "x200" is a run of 200
\* characters, every other token is spelled out.
Chars(tok) == IF tok = "x200" THEN 200 ELSE Len(tok)

\* len(text)
RECURSIVE CharLen(_)
CharLen(text) ==
    IF text = <<>> THEN 0 ELSE Chars(text[1]) + CharLen(Tail(text))

\* "Generated" in str(...) and ".png" in str(...)
\* (smolagent.py lines 273 and 281)
IsToolOutput(text) ==
    Contains(text, <<"Generated">>) /\ Contains(text, <<".", "png">>)

\* smolagent.py lines 265-291: the observations of the steps that pass the
\* test, joined by "\n", or else str(agent_output).
combined_output(observations, output) ==
    LET tool_outputs == SelectSeq(observations, IsToolOutput)
    IN  IF tool_outputs # <<>>
        THEN StrJoin(tool_outputs, <<"\n">>)
        ELSE output

\* f"**Agent Response:**\n\n{agent_output}"   (smolagent.py line 315)
AgentResponse(output) ==
    <<"**Agent", " ", "Response:**", "\n", "\n">> \o output

\* smolagent.py lines 300-315: the content written to history[-1].
AppFinalEntries(observations, output) ==
    LET combined == combined_output(observations, output)
        image_paths == App_parse_image_paths(combined)
        video_paths == App_parse_video_paths(combined)
    IN  IF image_paths # <<>> THEN <<ChatMedia(image_paths[1])>>
        ELSE IF video_paths # <<>> THEN <<ChatMedia(video_paths[1])>>
        ELSE <<ChatText(AgentResponse(output))>>

\* len(output_text) > 200   (utils.py line 166)
LongText == 200

\* "Task completed."   (utils.py line 195)
TaskCompleted == <<"Task", " ", "completed", ".">>

\* utils.py lines 158-196: what stream_from_smolagent yields once agent.run
\* has returned and the step logs have been shown.
FinalMessages(output, disk) ==
    LET image_paths == parse_image_paths(output, disk)
        video_paths == parse_video_paths(output, disk)
        output_text == Strip(output)
        media == image_paths \o video_paths
    IN  (IF output_text # <<>>
            /\ (media = <<>> \/ CharLen(output_text) > LongText)
         THEN <<ChatText(output_text)>> ELSE <<>>)
        \o [i \in 1..Len(media) |-> ChatMedia(media[i])]
        \o (IF media = <<>> /\ output_text = <<>>
            THEN <<ChatText(TaskCompleted)>> ELSE <<>>)

(***************************************************************************)
(* _process_step_for_ui (smolagent_ref.py lines 82-145).  A step is        *)
(* [action, tool_calls, observations]: whether it is an ActionStep, the    *)
(* arguments of its first tool call (<<>> when it has none) and the text   *)
(* of its observations (<<>> when it has none).                            *)
(***************************************************************************)
AllExts == ImageExts \cup VideoExts

\* any(ext in observation for ext in [...])   (lines 108-109)
HasExt(text, exts) ==
    \E i \in 1..(Len(text) - 1) : text[i] = "." /\ text[i + 1] \in exts

\* "/" in observation or "http" in observation   (line 112)
LooksLikePath(text) ==
    \E i \in 1..Len(text) : text[i] = "/" \/ text[i] \in Schemes

\* The end of /(?:[^/]+/)*[^/]+?\.(?:png|...|webm) matched at position i, 0
\* when it does not match there: every segment between two slashes and the
\* one before the dot is not empty; the greedy group takes as many
\* segments as a match allows, the lazy [^/]+? as little of the last one.
PathEnd(text, i) ==
    LET ends == {e \in (i + 3)..Len(text) :
                    /\ text[e] \in AllExts
                    /\ text[e - 1] = "."
                    /\ text[e - 2] # "/"
                    /\ \A k \in i..(e - 3) :
                          ~(text[k] = "/" /\ text[k + 1] = "/")}
        Slashes(e) == Cardinality({k \in i..e : text[k] = "/"})
        most == {e \in ends : \A f \in ends : Slashes(f) <= Slashes(e)}
    IN  IF text[i] # "/" \/ ends = {} THEN 0
        ELSE CHOOSE e \in most : \A f \in most : e <= f

\* The end of https?://\S+ matched at position i, 0 when it does not match.
UrlEnd(text, i) ==
    LET ends == {e \in (i + 3)..Len(text) :
                    \A k \in (i + 3)..e : text[k] \notin Whitespace}
    IN  IF /\ text[i] \in Schemes
           /\ i + 2 <= Len(text)
           /\ text[i + 1] = "/"
           /\ text[i + 2] = "/"
           /\ ends # {}
        THEN CHOOSE e \in ends : \A f \in ends : f <= e
        ELSE 0

\* re.search(r'(/(?:[^/]+/)*[^/]+?\.(?:...)|https?://\S+)', observation)
\* (line 117): the leftmost match, <<>> for None.
RECURSIVE Search(_, _)
Search(text, i) ==
    IF i > Len(text) THEN <<>>
    ELSE LET e == Max(PathEnd(text, i), UrlEnd(text, i)) IN
         IF e = 0 THEN Search(text, i + 1) ELSE SubSeq(text, i, e)

\* Lines 88-101: the first message of a step; "[fence]" stands for the
\* three backquotes of a code fence and the emoji of line 93 is left out.
ThinkingBubble(step) ==
    IF step.tool_calls # <<>>
    THEN ChatText(<<"[fence]python", "\n", "#", " ", "Agent", " ", "is", " ",
                    "coding", ".", ".", ".", "\n">>
                     \o step.tool_calls \o <<"\n", "[fence]">>)
    ELSE ChatText(<<"Thinking", ".", ".", ".">>)

\* Lines 104-145: the second message of a step that has observations.
ResultBubble(step) ==
    LET observation == Strip(step.observations)
        is_video == HasExt(observation, VideoExts)
        is_image == HasExt(observation, ImageExts)
        match == Search(observation, 1)
    IN  IF (is_video \/ is_image) /\ LooksLikePath(observation)
        THEN IF match # <<>> THEN ChatMedia(match)
             ELSE ChatMedia(observation)
        ELSE ChatText(<<"Observation:", " ">> \o observation)

\* Fault: the result of a step is yielded before its thinking bubble.
process_step_for_ui_ResultFirst(step) ==
    IF ~step.action THEN <<>>
    ELSE (IF step.observations # <<>>
          THEN <<ResultBubble(step)>> ELSE <<>>)
            \o <<ThinkingBubble(step)>>

\* Lines 86-145: nothing for a step that is no ActionStep.
process_step_for_ui(step) ==
    IF ~step.action THEN <<>>
    ELSE <<ThinkingBubble(step)>>
            \o (IF step.observations # <<>>
                THEN <<ResultBubble(step)>> ELSE <<>>)

(***************************************************************************)
(* GradioInterface.interact_with_agent (gradio_interface.py lines 52-100). *)
(* The assistant's process_message hands back a tuple: FalAIClient's       *)
(* (legacy_agent.py lines 243-296) has two members, images and text; the   *)
(* handler unpacks three, images, text and video.  imgs is a list whose    *)
(* members are an image ("img") or None.                                   *)
(***************************************************************************)
TextPart(text) == [type |-> "text", value |-> text]
MediaPart(path) == [type |-> "path", value |-> path]

\* Lines 79-87: one part for every image that is not None, each saved to a
\* temporary file of its own.
RECURSIVE ImageParts(_, _)
ImageParts(imgs, n) ==
    IF imgs = <<>> THEN <<>>
    ELSE IF imgs[1] = "None" THEN ImageParts(Tail(imgs), n)
    ELSE <<MediaPart(TempPath(n, "png"))>> \o ImageParts(Tail(imgs), n + 1)

\* Lines 75-91: the list content.
ContentParts(text, imgs, video) ==
    (IF text # <<>> THEN <<TextPart(text)>> ELSE <<>>)
    \o ImageParts(imgs, 1)
    \o (IF video # <<>> THEN <<MediaPart(video)>> ELSE <<>>)

\* content if len(content) > 1 else content[0]   (line 96): a single part
\* is the content itself, a dict with a "text" or with a "path".
PartsContent(parts) ==
    IF Len(parts) > 1 THEN Content("list", parts)
    ELSE IF parts[1].type = "text" THEN Content("textdict", parts[1].value)
    ELSE Content("dict", parts[1].value)

NoResponse == <<"No", " ", "response", " ", "generated", ".">>

\* Lines 65-100: the entries appended to the history; unpacking a tuple of
\* two members into three names raises ValueError at line 72.
interact_with_agent(prompt, arity, text, imgs, video) ==
    LET parts == ContentParts(text, imgs, video) IN
    <<Msg("user", Content("str", prompt))>>
    \o (IF arity # 3 THEN <<>>
        ELSE IF parts # <<>> THEN <<Msg("assistant", PartsContent(parts))>>
        ELSE <<ChatText(NoResponse)>>)

(***************************************************************************)
(* The renderers applied.  The agent's final output is a text of at most   *)
(* MaxRefs words, a word being one of Words, a URL that names no media     *)
(* file or a media URL of more than 200 characters; the observations of    *)
(* the steps are strings the three tools return.                           *)
(***************************************************************************)
UrlPage == <<"https:", "/", "/", "h", "/", "page">>
LongUrl == <<"https:", "/", "/", "h", "/", "x200", ".", "png">>

RenderWords == Words \cup {UrlPage, LongUrl}

RenderTexts ==
    {<<>>, <<" ">>} \cup
    UNION {{Weave(ws, ss) : ws \in [1..n -> RenderWords],
                            ss \in [1..(n - 1) -> Seps]}
              : n \in 1..MaxRefs}

\* What forward of a tool returns: one or two images, a video, an edited
\* image, an error.
ToolStrings ==
    {ImageStatus(TempPaths(1, "png")), ImageStatus(TempPaths(2, "png")),
     VideoStatus(TempPath(1, "mp4")), EditStatus(TempPath(1, "png")),
     ImageErrorPrefix \o ErrorText}

\* The observations of the steps of one run; <<>> is a step without one.
ObsSeqs == UNION {[1..n -> ToolStrings \cup {<<>>}] : n \in 0..MaxSteps}

\* smolagent.py lines 264-315 on the steps and the output of a finished run.
RenderApp ==
    /\ rendered = NoRender
    /\ \E observations \in ObsSeqs, output \in RenderTexts :
          rendered' =
             [NoRender EXCEPT
                !.impl = "smolagent", !.observations = observations,
                !.text = output,
                !.out = AppFinalEntries(observations, output)]
    /\ UNCHANGED <<runnerVars, tool_call, model_config, parsed, context, stream>>

\* utils.py lines 158-196 on the output of a finished run.
RenderUtils ==
    /\ rendered = NoRender
    /\ \E output \in RenderTexts, disk \in Disks :
          rendered' =
             [NoRender EXCEPT
                !.impl = "utils", !.text = output, !.disk = disk,
                !.out = FinalMessages(output, disk)]
    /\ UNCHANGED <<runnerVars, tool_call, model_config, parsed, context, stream>>

\* smolagent_ref.py lines 82-145 on one step.
RenderRefStep ==
    /\ rendered = NoRender
    /\ \E action \in BOOLEAN, tool_calls \in {<<>>, <<"args">>},
          observations \in RenderTexts \cup ToolStrings :
          rendered' =
             [NoRender EXCEPT
                !.impl = "smolagent_ref", !.action = action,
                !.tool_calls = tool_calls, !.observations = <<observations>>,
                !.out = process_step_for_ui(
                           [action |-> action, tool_calls |-> tool_calls,
                            observations |-> observations])]
    /\ UNCHANGED <<runnerVars, tool_call, model_config, parsed, context, stream>>

ImgLists == UNION {[1..n -> {"img", "None"}] : n \in 0..2}

\* gradio_interface.py lines 65-100 on what process_message handed back.
RenderGradio ==
    /\ rendered = NoRender
    /\ \E arity \in {2, 3}, text \in {<<>>, <<"see">>}, imgs \in ImgLists,
          video \in {<<>>, VideoA} :
          rendered' =
             [NoRender EXCEPT
                !.impl = "gradio", !.arity = arity, !.text = text,
                !.imgs = imgs, !.video = video,
                !.out = interact_with_agent(<<"prompt">>, arity, text, imgs,
                                            video)]
    /\ UNCHANGED <<runnerVars, tool_call, model_config, parsed, context, stream>>

NextRender ==
    \/ RenderApp
    \/ RenderUtils
    \/ RenderRefStep
    \/ RenderGradio

SpecRender == Init /\ [][NextRender]_vars

(***************************************************************************)
(* smolagent_ref.stream_agent_response (smolagent_ref.py lines 147-189):   *)
(* a generator without threads.  stream holds one call of it: pc is its    *)
(* position, messages the list it yields, new_ui_messages the messages of  *)
(* the current step not yet appended, step the number of steps agent.run   *)
(* has handed over.  A message of messages carries, besides role and       *)
(* content, the number of the step it was made from (0: from none).        *)
(***************************************************************************)
\* Number of steps one agent.run(stream=True) hands over.
MaxRefSteps == 2

FromStep(msg, k) == [role |-> msg.role, content |-> msg.content, step |-> k]

\* The chats the call is given: None, an empty one, one answered turn.
StreamArgs ==
    { NoneHistory,
      ListHistory(<<>>),
      ListHistory(<<FromStep(Msg("user", Content("str", <<"t", 1>>)), 0),
                    FromStep(ChatText(<<"t", 2>>), 0)>>) }

\* The steps agent.run hands over: ActionSteps and others (planning, final
\* answer), with or without a tool call, without observations, with the
\* status string of the video tool or with a plain text.
RefSteps ==
    [action : BOOLEAN, tool_calls : {<<>>, <<"args">>},
     observations : {<<>>, VideoStatus(TempPath(1, "mp4")), <<"see">>}]

StreamUserMessage == FromStep(Msg("user", Content("str", <<"prompt">>)), 0)

\* f"... Error: {str(e)}"   (line 188); the emoji is left out.
StreamError == FromStep(ChatText(<<"Error:", " ">> \o ErrorText), 0)

StreamYields == {"y_user", "y_msg", "y_error"}

\* The first next(): lines 154-160.  history[:-1] of None raises TypeError
\* before the try block is entered.
StreamCall ==
    /\ stream.pc = "idle"
    /\ \E arg \in StreamArgs :
          stream' =
             IF arg.none
             THEN [stream EXCEPT !.pc = "raised"]
             ELSE [stream EXCEPT
                     !.pc = "y_user", !.prior = arg.items,
                     !.messages = Append(arg.items, StreamUserMessage)]
    /\ UNCHANGED <<runnerVars, tool_call, model_config, parsed, context, rendered>>

\* Lines 173-189 when no message of the current step is left: agent.run
\* hands over the next step, ends, or raises.  A step that gives no message
\* leaves the generator inside the loop; the first message of a step is
\* appended and yielded.
StreamStep ==
    /\ stream.pc \in {"y_user", "y_msg", "loop"}
    /\ stream.new_ui_messages = <<>>
    /\ \/ stream' = [stream EXCEPT !.pc = "done"]
       \/ stream' = [stream EXCEPT
                       !.pc = "y_error",
                       !.messages = Append(@, StreamError)]
       \/ /\ stream.step < MaxRefSteps
          /\ \E step \in RefSteps :
                LET made == process_step_for_ui(step)
                    new_ui_messages ==
                       [i \in 1..Len(made) |->
                           FromStep(made[i], stream.step + 1)]
                IN  stream' =
                       IF new_ui_messages = <<>>
                       THEN [stream EXCEPT !.pc = "loop", !.step = @ + 1]
                       ELSE [stream EXCEPT
                               !.pc = "y_msg", !.step = @ + 1,
                               !.messages = Append(@, new_ui_messages[1]),
                               !.new_ui_messages = Tail(new_ui_messages)]
    /\ UNCHANGED <<runnerVars, tool_call, model_config, parsed, context, rendered>>

\* Lines 178-181: the next message of the current step is appended and
\* yielded.
StreamMessage ==
    /\ stream.pc = "y_msg"
    /\ stream.new_ui_messages # <<>>
    /\ stream' = [stream EXCEPT
                    !.messages = Append(@, stream.new_ui_messages[1]),
                    !.new_ui_messages = Tail(@)]
    /\ UNCHANGED <<runnerVars, tool_call, model_config, parsed, context, rendered>>

\* The generator is resumed after the yield of line 189: its body ends.
StreamReturn ==
    /\ stream.pc = "y_error"
    /\ stream' = [stream EXCEPT !.pc = "done"]
    /\ UNCHANGED <<runnerVars, tool_call, model_config, parsed, context, rendered>>

\* The consumer closes the generator at a yield: GeneratorExit is no
\* Exception, the handler of line 187 does not run.
StreamClose ==
    /\ stream.pc \in StreamYields
    /\ stream' = [stream EXCEPT !.pc = "closed", !.new_ui_messages = <<>>]
    /\ UNCHANGED <<runnerVars, tool_call, model_config, parsed, context, rendered>>

NextStream ==
    \/ StreamCall
    \/ StreamStep
    \/ StreamMessage
    \/ StreamReturn
    \/ StreamClose

SpecStream == Init /\ [][NextStream]_vars

(***************************************************************************)
(* Properties.                                                             *)
(***************************************************************************)

Live(c) == ~history[c].none /\ history[c].items # <<>>

C2_AtMostOneUnjoinedWorker ==
    Cardinality({c \in Calls : IsAlive(c) /\ ~joined[c]}) <= 1

\* C3: the step count of a yielded progress snapshot is never smaller than
\* the step count of the snapshot yielded before it in the same call
\* (last_step_count holds that earlier count, and 0 before the first one).
C3_StepCountNeverDecreases ==
    \A c \in Calls :
        pc[c] = "y_poll" => current_step_count[c] >= last_step_count[c]

\* C4: an exception raised by agent.run is stored in agent_error and never
\* leaves the worker thread; the polling thread re-raises it only after
\* join() has returned, always re-raises it then, and from the re-raise on
\* the call only yields the error entry: no progress snapshot follows.
C4_WorkerErrorReraisedAfterJoin ==
    \A c \in Calls :
        /\ agent_thread[c] # "died"
        /\ agent_thread[c] = "raised" /\ pc[c] # "done" =>
              agent_error[c] = "error"
        /\ failure[c] = "worker" =>
              /\ joined[c]
              /\ agent_thread[c] = "raised"
              /\ pc[c] \in {"y_error", "done", "closed"}
        /\ failure[c] = "worker" /\ pc[c] = "y_error" =>
              LastEntry(history[c]) = ErrorMsg
        /\ agent_thread[c] = "raised" /\ pc[c] \in FinalPos =>
              failure[c] = "worker"

C4_Witness ==
    \E c \in Calls :
        /\ failure[c] = "worker"
        /\ pc[c] = "y_error"
        /\ agent_error[c] = "error"

\* C5: no failure of the turn reaches the caller: whether context building,
\* the worker or the result parsing raised, and also for a history argument
\* of None or [], the call goes on to yield a history whose last entry is
\* the assistant's error entry, and yields nothing else afterwards.
C5_FailureEndsInErrorEntry ==
    \A c \in Calls :
        /\ pc[c] # "raised"
        /\ failure[c] # "none" => pc[c] \in {"y_error", "done", "closed"}
        /\ pc[c] = "y_error" =>
              /\ failure[c] \in {"context", "worker", "parse"}
              /\ Live(c)
              /\ LastEntry(history[c]) = ErrorMsg

C5_Witness ==
    \E c, d \in Calls :
        /\ pc[c] = "y_error" /\ failure[c] = "context"
        /\ pc[d] = "y_error" /\ failure[d] = "parse"

\* C6: in one call every progress yield comes before the final yield, the
\* final yield (media entry, text answer or error entry) happens once, and
\* nothing is yielded after it: from the final yield the generator can only
\* end or be closed, and an ended generator stays ended.
C6_ProgressThenOneFinal ==
    [][\A c \in Calls :
          /\ pc[c] \in FinalPos => pc'[c] \in {pc[c], "done", "closed"}
          /\ pc[c] \in {"done", "closed", "raised"} => pc'[c] = pc[c]
          /\ pc'[c] = "y_poll" /\ pc[c] # "y_poll" =>
                LastEntry(history'[c]).kind = "progress"
          /\ pc'[c] \in FinalPos /\ pc[c] \notin FinalPos =>
                LastEntry(history'[c]).kind \in {"media", "answer", "error"}
      ]_vars

C6_Witness ==
    \E c \in Calls :
        /\ pc[c] = "done"
        /\ joined[c]
        /\ failure[c] = "none"

\* C7 as stated: both flags are assigned only by the worker, each exactly
\* once per run, and the polling thread reads them only after the join.
C7_EachFlagWrittenOnceByWorker ==
    \A c \in Calls :
        /\ access[c].poller = 0
        /\ Terminated(c) => access[c].out = 1 /\ access[c].err = 1
        /\ access[c].read => joined[c]

\* C7 as amended: the polling thread assigns the two flags only when it
\* initialises both before starting the thread; the worker assigns exactly
\* one of them, once, per run (agent_output when agent.run returns,
\* agent_error when it raises); the polling thread reads them only after
\* the join.
C7_OneFlagWrittenOnceByWorker ==
    \A c \in Calls :
        /\ access[c].poller = IF agent_thread[c] = "none" THEN 0 ELSE 2
        /\ IsAlive(c) => access[c].out = 0 /\ access[c].err = 0
        /\ agent_thread[c] = "returned" =>
              access[c].out = 1 /\ access[c].err = 0
        /\ agent_thread[c] = "raised" =>
              access[c].out = 0 /\ access[c].err = 1
        /\ access[c].read => joined[c] /\ Terminated(c)

C7_Witness ==
    \E c, d \in Calls :
        /\ agent_thread[c] = "returned" /\ access[c].read
        /\ agent_thread[d] = "raised" /\ access[d].read

\* C8: every step rendered in a progress snapshot, and every tool output
\* the final media entry was parsed from, was recorded by the call's own
\* agent run.
C8_OnlyOwnSteps ==
    \A c \in Calls :
        Live(c) =>
            \A i \in 1..Len(history[c].items) :
                history[c].items[i].shown \subseteq {c}

\* C9: a started worker always runs agent.run to its end, whatever the
\* consumer does with the generator.
C9_WorkerRunsToCompletion ==
    \A c \in Calls : IsAlive(c) ~> Terminated(c)

C9_Witness ==
    \E c \in Calls : orphaned[c] /\ Terminated(c)

\* C10: once the worker of a call has terminated, a consumer that keeps
\* consuming sees the poll loop end and a final history yielded (unless it
\* closes the generator itself).
C10_CallTerminates ==
    \A c \in Calls :
        (Terminated(c) /\ pc[c] \in LoopPos)
            ~> (pc[c] \in FinalPos \cup {"closed"})

C10_Witness ==
    \E c \in Calls :
        /\ pc[c] = "y_final"
        /\ agent_thread[c] = "returned"
        /\ \E d \in Calls : pc[d] = "done" /\ agent_thread[d] = "raised"

\* The declared ranges: "Number of images to generate (1-4)" and "Video
\* duration in seconds (4-8)".
MinImages == 1
MaxImages == 4
MinDuration == 4
MaxDuration == 8

Clamp(n, lo, hi) == Min(Max(n, lo), hi)

ErrorPrefixOf(tool) ==
    IF tool = "image" THEN ImageErrorPrefix
    ELSE IF tool = "video" THEN VideoErrorPrefix
    ELSE EditErrorPrefix

C12_AlwaysStatusString ==
    tool_call.tool # "none" => tool_call.ret.kind = "str"

\* C13: for every integer num_images, the number of images requested from
\* the backing API is num_images clamped to [1,4], and forward does not
\* raise.
C13_NumImagesClamped ==
    tool_call.tool = "image" =>
        /\ tool_call.ret.kind # "raise"
        /\ tool_call.submitted.count =
              Clamp(tool_call.num_images, MinImages, MaxImages)

\* C14: the duration submitted lies in the declared range of 4 to 8
\* seconds, equals the requested duration when that lies in the range, and
\* is the nearest bound otherwise.
C14_DurationClamped ==
    tool_call.tool = "video" =>
        /\ tool_call.submitted.duration \in MinDuration..MaxDuration
        /\ tool_call.submitted.duration =
              Clamp(tool_call.duration, MinDuration, MaxDuration)

\* C15: for every model, mode and image type, also unknown ones, a tool
\* selects a backing-model identifier, never an absent one, and
\* ModelConfig(mode), set_mode(mode) and get_model(task) never raise.
C15_LookupNeverFails ==
    /\ tool_call.tool # "none" => tool_call.submitted.model_id # "None"
    /\ model_config.result # "KeyError"

Matching(tool, fn) ==
    IF tool = "video" THEN fn \in VideoExtractors ELSE fn \in ImageExtractors

\* C16: for every successful result of a tool, each path the tool wrote
\* appears verbatim in the returned string, and the matching extractor
\* applied to that string returns exactly those paths in the same order.
C16_StatusRoundTrip ==
    /\ tool_call.ret.kind = "str" /\ tool_call.ret.exc = "none" =>
          \A i \in 1..Len(tool_call.ret.written) :
              Contains(tool_call.ret.text, tool_call.ret.written[i])
    /\ /\ parsed.fn # "none"
       /\ tool_call.ret.exc = "none"
       /\ Matching(tool_call.tool, parsed.fn)
       => parsed.out = tool_call.ret.written

C16_Witness ==
    /\ tool_call.tool = "image"
    /\ Len(tool_call.ret.written) = 2
    /\ parsed.fn = "parse_image_paths"
    /\ parsed.out = tool_call.ret.written

FirstIndex(seq, x) == CHOOSE i \in 1..Len(seq) : seq[i] = x /\ \A k \in 1..(i - 1) : seq[k] # x

\* C17: for every text, the sequence an extractor returns holds no
\* reference twice, and its references stand in the order of their first
\* occurrence among the matches in the text.
C17_NoDuplicatesFirstSeenOrder ==
    parsed.fn # "none" =>
        LET out == parsed.out
            cands == Candidates(parsed.fn, parsed.text)
        IN  /\ \A i, j \in 1..Len(out) : i # j => out[i] # out[j]
            /\ Range(out) \subseteq Range(cands)
            /\ \A i, j \in 1..Len(out) :
                  i < j => FirstIndex(cands, out[i]) <= FirstIndex(cands, out[j])

\* C18: a matched candidate is in the output if and only if it starts with
\* http:// or https:// or names an existing file; what is returned for a
\* URL is the complete URL.
C18_IncludedIffUrlOrExists ==
    parsed.fn # "none" =>
        /\ \A cand \in Range(Candidates(parsed.fn, parsed.text)) :
              cand \in Range(parsed.out)
                  <=> (StartsWithHttp(cand) \/ cand \in parsed.disk)
        /\ \A path \in Range(parsed.out) :
              StartsWithHttp(path) \/ path \in parsed.disk

\* C19: a turn before the current one whose content is a media reference
\* adds nothing to the context: neither its path nor a dump of the object
\* is part of it.
C19_MediaTurnsLeftOut ==
    context.impl # "none" =>
        \A i \in 1..Len(context.history) :
            context.history[i].content.type = "dict" =>
                \A k \in 1..Len(context.out) :
                    context.out[k].text.value # context.history[i].content.value

\* The "<Role>: <text>" lines of the text turns of a history, in its order.
RECURSIVE TextLines(_)
TextLines(hist) ==
    IF hist = <<>> THEN <<>>
    ELSE IF hist[1].content.type = "str"
         THEN <<Part("turn", Capitalize(hist[1].role), hist[1].content)>>
                 \o TextLines(Tail(hist))
         ELSE TextLines(Tail(hist))

IsTextLine(part) == part.kind = "turn" /\ part.text.type = "str"

\* C20: for a history of any length, each turn before the current one
\* whose content is text is in the context exactly once as "<Role>:
\* <text>", in the order of the history, under one header; none is left
\* out.
C20_EveryTextTurnOnce ==
    context.impl # "none" =>
        /\ SelectSeq(context.out, IsTextLine) = TextLines(context.history)
        /\ TextLines(context.history) # <<>> =>
              /\ context.out[1] = Header
              /\ \A k \in 2..Len(context.out) : context.out[k] # Header

\* C21: the context handed to agent.run holds exactly one "Current request:
\* <text>" line, that line is its last, and its text is the message of the
\* current user turn (no earlier turn's text, no progress placeholder).
C21_OneCurrentRequestLast ==
    context.impl # "none" =>
        LET out == context.out
            current == {k \in 1..Len(out) : out[k].kind = "current"}
        IN  /\ current = {Len(out)}
            /\ out[Len(out)].text = UserMessage(context.history)

\* The media references the renderer named impl extracts from text: the
\* extractors of utils.py, or the methods of SmolagentFalApp.
RefsOf(impl, text, disk) ==
    IF impl = "smolagent"
    THEN App_parse_image_paths(text) \o App_parse_video_paths(text)
    ELSE parse_image_paths(text, disk) \o parse_video_paths(text, disk)

\* text with every occurrence of a reference removed.
RECURSIVE Without(_, _)
Without(text, refs) ==
    IF text = <<>> THEN <<>>
    ELSE LET hits == {r \in Range(refs) : StartsWith(text, r)} IN
         IF hits = {}
         THEN <<text[1]>> \o Without(Tail(text), refs)
         ELSE LET r == CHOOSE q \in hits : \A p \in hits : Len(p) <= Len(q)
              IN  Without(SubSeq(text, Len(r) + 1, Len(text)), refs)

Blank(text) == \A i \in 1..Len(text) : text[i] \in Whitespace

IsTextTurn(msg) == msg.content.type = "str"
IsMediaTurn(msg) == msg.content.type = "dict"

\* The text the renderer extracts the media from.
RenderedText ==
    IF rendered.impl = "smolagent"
    THEN combined_output(rendered.observations, rendered.text)
    ELSE rendered.text

CarriesMedia(text) == RefsOf("smolagent", text, {}) # <<>>

\* C22: when a step of the finished run carries a tool output with a media
\* path, the media shown is one of the paths of the tool outputs, not
\* something read from the agent's final text; when no step carries one,
\* the entry is what the agent's text alone gives.
C22_MediaFromToolOutput ==
    rendered.impl = "smolagent" =>
        LET carrying == SelectSeq(rendered.observations, CarriesMedia)
            tool_media == UNION {Range(RefsOf("smolagent", carrying[i], {})) :
                                    i \in 1..Len(carrying)}
        IN  IF carrying # <<>>
            THEN /\ IsMediaTurn(rendered.out[1])
                 /\ rendered.out[1].content.value \in tool_media
            ELSE rendered.out = AppFinalEntries(<<>>, rendered.text)

\* C23: a rendered text of N distinct valid media references and no other
\* words gives no text turn and exactly N media turns, one per reference,
\* in the order of extraction.
C23_OnlyMediaGivesMediaTurns ==
    rendered.impl \in {"utils", "smolagent"} =>
        LET refs == RefsOf(rendered.impl, RenderedText, rendered.disk) IN
        /\ refs # <<>>
        /\ \A i, j \in 1..Len(refs) : i # j => refs[i] # refs[j]
        /\ Blank(Without(RenderedText, refs))
        => rendered.out = [i \in 1..Len(refs) |-> ChatMedia(refs[i])]

\* C24: a text turn is emitted if and only if the agent output, the
\* extracted media references removed, still holds text that is not white
\* space; no text turn is empty or white space only.
C24_TextTurnIffRemainder ==
    rendered.impl \in {"utils", "smolagent"} =>
        LET refs == RefsOf(rendered.impl, RenderedText, rendered.disk)
            texts == SelectSeq(rendered.out, IsTextTurn)
        IN  /\ texts # <<>> <=> ~Blank(Without(rendered.text, refs))
            /\ \A i \in 1..Len(texts) : ~Blank(texts[i].content.value)

HasUrl(text) == \E i \in 1..Len(text) : UrlEnd(text, i) # 0

\* C25: no emitted entry holds a URL-shaped substring that the media
\* extractor did not return as valid: a text turn holds none once the valid
\* references are taken out, and a media turn's path is no such URL.
C25_NoUnvalidatedUrl ==
    rendered.impl \in {"utils", "smolagent", "smolagent_ref"} =>
        LET source == IF rendered.impl = "smolagent_ref"
                      THEN rendered.observations[1] ELSE RenderedText
            valid == RefsOf(rendered.impl, source, rendered.disk)
        IN  \A k \in 1..Len(rendered.out) :
                LET value == rendered.out[k].content.value IN
                IF IsTextTurn(rendered.out[k])
                THEN ~HasUrl(Without(value, valid))
                ELSE HasUrl(value) => value \in Range(valid)

\* The media items of the reply a handler renders.
MediaItems ==
    IF rendered.impl = "gradio"
    THEN Len(ImageParts(rendered.imgs, 1))
            + (IF rendered.video # <<>> THEN 1 ELSE 0)
    ELSE Len(RefsOf("smolagent", RenderedText, {}))

\* C26: every entry a handler appends has a content that is text or one
\* media reference, never a list of parts, and a reply with several media
\* items is appended as one entry per item.
C26_SinglePurposeEntries ==
    \/ rendered.impl = "smolagent"
    \/ rendered.impl = "gradio" /\ rendered.arity = 3
    => /\ \A k \in 1..Len(rendered.out) :
             rendered.out[k].content.type \in {"str", "textdict", "dict"}
       /\ Len(SelectSeq(rendered.out, IsMediaTurn)) = MediaItems

\* C27: after any sequence of constructor and set_mode calls, failing ones
\* included, the stored mode names the active table (_config is
\* MODELS[mode]), so that get_model(task) returns the identifier of the mode
\* that mode, to_json and repr report.
C27_ModeAndTableAgree ==
    /\ model_config.mode \in DOMAIN MODELS
    /\ model_config._config = MODELS[model_config.mode]
    /\ model_config.op = "get_model" /\ model_config.result # "KeyError" =>
          model_config.result = MODELS[model_config.mode][model_config.arg]

\* The entries a call was given are the first entries of its history, the
\* user message follows them, and the turn's placeholder or progress
\* snapshot is nowhere but in the entry after that; at the final yield of a successful
\* turn the history is the given entries, the user message and one
\* assistant entry.
FrameOfCall(c) ==
    \E arg \in TurnArgs :
        LET prior == HistOrEmpty(arg).items
            items == history[c].items
            n == Len(prior)
        IN  /\ Len(items) > n
            /\ SubSeq(items, 1, n) = prior
            /\ items[n + 1] = UserText
            /\ \A i \in (n + 1)..Len(items) :
                  items[i].kind \in {"thinking", "progress"} => i = n + 2
            /\ pc[c] = "y_final" =>
                  /\ Len(items) = n + 2
                  /\ items[n + 2].role = "assistant"
                  /\ items[n + 2].kind \in {"media", "answer"}

\* A step changes the history of a call by appending one entry, or by
\* giving its last entry, the placeholder or a progress snapshot, a new
\* content; every other entry stays as it is.
FrameOfStep(c) ==
    LET old == history[c].items
        new == history'[c].items
    IN  \/ new = old
        \/ Len(new) = Len(old) + 1 /\ SubSeq(new, 1, Len(old)) = old
        \/ /\ Len(new) = Len(old)
           /\ SubSeq(new, 1, Len(old) - 1) = SubSeq(old, 1, Len(old) - 1)
           /\ old[Len(old)].role = "assistant"
           /\ old[Len(old)].kind \in {"thinking", "progress"}

\* C28: during one call the entries that were in the history before the
\* call are never modified, reordered or removed; a progress update only
\* overwrites the content of the turn's last assistant entry; a successful
\* turn leaves the history exactly two entries longer than before.
C28_HistoryFrame ==
    /\ [](\A c \in Calls : Live(c) => FrameOfCall(c))
    /\ [][\A c \in Calls :
             Live(c) /\ ~history'[c].none /\ history'[c].items # <<>> =>
                FrameOfStep(c)]_vars

C28_Witness ==
    \E c \in Calls :
        /\ pc[c] = "y_final"
        /\ history[c].items = <<UserText, AnswerMsg, UserText,
                                LastEntry(history[c])>>
        /\ LastEntry(history[c]).kind = "media"

\* C29: when a call finishes, on success and on failure alike, no entry of
\* the final yielded history holds the placeholder or a progress snapshot.
C29_NoPlaceholderLeft ==
    \A c \in Calls :
        pc[c] \in FinalPos =>
            \A i \in 1..Len(history[c].items) :
                history[c].items[i].kind \notin {"thinking", "progress"}

\* The messages of the turn: those after the given chat and the user
\* message.
TurnMessages ==
    SubSeq(stream.messages, Len(stream.prior) + 2, Len(stream.messages))

IsThinkingBubble(msg) ==
    /\ msg.content.type = "str"
    /\ \/ msg.content.value = <<"Thinking", ".", ".", ".">>
       \/ StartsWith(msg.content.value, <<"[fence]python">>)

IsResultBubble(msg) ==
    \/ msg.content.type = "dict"
    \/ StartsWith(msg.content.value, <<"Observation:">>)

\* The messages made from steps stand in the order of the steps, every
\* step gives a thinking bubble first and at most one result after it, and
\* nothing follows an error message.
InStepOrder ==
    LET msgs == TurnMessages IN
    \A i \in 1..Len(msgs) :
        /\ msgs[i].step = 0 => msgs[i] = StreamError /\ i = Len(msgs)
        /\ msgs[i].step > 0 =>
              /\ IF i > 1 /\ msgs[i - 1].step = msgs[i].step
                 THEN IsThinkingBubble(msgs[i - 1]) /\ IsResultBubble(msgs[i])
                 ELSE IsThinkingBubble(msgs[i])
              /\ \A j \in 1..Len(msgs) : j < i => msgs[j].step <= msgs[i].step

\* C30: the histories smolagent_ref.stream_agent_response yields are
\* append-only: every yield after the first extends the history yielded
\* before it by exactly one appended entry and changes no earlier entry,
\* the entries follow the order in which the steps complete, and within a
\* step the thinking entry comes before the result entry.
C30_AppendOnlyInStepOrder ==
    /\ [](stream.pc \notin {"idle", "raised"} =>
             /\ SubSeq(stream.messages, 1, Len(stream.prior) + 1)
                   = Append(stream.prior, StreamUserMessage)
             /\ InStepOrder)
    /\ [][/\ stream.pc \in StreamYields \cup {"loop"} =>
               \/ /\ stream'.pc \in {"y_msg", "y_error"}
                  /\ Len(stream'.messages) = Len(stream.messages) + 1
                  /\ SubSeq(stream'.messages, 1, Len(stream.messages))
                        = stream.messages
               \/ /\ stream'.pc \in {"loop", "done", "closed"}
                  /\ stream'.messages = stream.messages
          /\ stream.pc \in {"done", "closed", "raised"} => stream' = stream
       ]_vars

C30_Witness ==
    /\ stream.pc = "y_msg"
    /\ Len(stream.prior) = 2
    /\ Len(TurnMessages) = 4
    /\ TurnMessages[2].step = 1
    /\ IsResultBubble(TurnMessages[2])
    /\ TurnMessages[4].step = 2
    /\ TurnMessages[4].content.type = "dict"

====
